---- MODULE Spec2Model ----
(***************************************************************************)
(* RSA key generation, raw encrypt/decrypt and hash-then-sign signatures   *)
(* of backend/utils, backend/crypto/rsa.py and                             *)
(* backend/signature/digital_signature.py, as a state machine over one     *)
(* DigitalSignature object (which owns one RSA object).                    *)
(***************************************************************************)
EXTENDS Integers, Sequences, FiniteSets, TLC

VARIABLES
    key_size,         \* RSA.key_size, fixed at construction
    rsa_public_key,   \* RSA.public_key: None or <<e, n>>
    rsa_private_key,  \* RSA.private_key: None or <<d, n>>
    rsa_n,            \* RSA.n: 0 while unset
    ds_public_key,    \* DigitalSignature.public_key
    ds_private_key,   \* DigitalSignature.private_key
    pc,               \* position inside generate_keypair
    p, q,             \* locals p, q of generate_keypair (0 while unset)
    cand,             \* local n of generate_prime / miller_rabin
    mr_round,         \* miller_rabin: rounds passed so far, -1 outside it
    call,             \* the last call on the object and what it gave
    math_call,        \* the last direct call of a math_utils function
    mr_call,          \* the last direct call of miller_rabin, round by round
    key_directory,    \* models.key_directory: key id -> KeyEntry
    response          \* the last HTTP request of main.py and its response

vars == <<key_size, rsa_public_key, rsa_private_key, rsa_n, ds_public_key,
          ds_private_key, pc, p, q, cand, mr_round, call, math_call,
          mr_call, key_directory, response>>

engine == <<key_size, rsa_public_key, rsa_private_key, rsa_n, ds_public_key,
            ds_private_key, pc, p, q, cand, mr_round>>

\* what the object's methods and the math_utils calls never touch
side == <<mr_call, key_directory, response>>

(***************************************************************************)
(* Bounds of the model.                                                    *)
(***************************************************************************)
MaxBits == 5        \* generate_prime is called with at most this many bits
MaxMsg == 3         \* messages are 0..MaxMsg
MaxBase == 6        \* power_mod: bases 0..MaxBase
MaxExp == 8         \* power_mod: exponents -MaxNegExp..MaxExp
MaxNegExp == 2
MaxModulus == 8     \* power_mod: moduli 1..MaxModulus
MaxA == 12          \* mod_inverse, gcd, extended_gcd: a in 0..MaxA
MaxM == 12          \* mod_inverse, gcd, extended_gcd: m in 0..MaxM
MaxN == 30          \* miller_rabin is called directly on n in 0..MaxN

(***************************************************************************)
(* Program constants.                                                      *)
(***************************************************************************)
DefaultE == 65537   \* e = 65537
FallbackE == 3      \* e = 3
K == 5              \* miller_rabin(n, k=5)

None == <<>>

\* What a call gives back: a value, or the error it raised.
Return(v) == [err |-> "none", val |-> v]
Raise(e) == [err |-> e, val |-> 0]

(***************************************************************************)
(* utils/math_utils.py                                                     *)
(***************************************************************************)
RECURSIVE gcd(_, _)
gcd(a, b) == IF b # 0 THEN gcd(b, a % b) ELSE a

\* <<g, x, y>> with a*x + b*y = g
RECURSIVE extended_gcd(_, _)
extended_gcd(a, b) ==
    IF a = 0 THEN <<b, 0, 1>>
    ELSE LET r == extended_gcd(b % a, a)
             x == r[3] - (b \div a) * r[2]
             y == r[2]
         IN  <<r[1], x, y>>

\* as mod_inverse, returning x as extended_gcd gives it
mod_inverse_unnormalized(a, m) ==
    LET r == extended_gcd(a, m)
    IN  IF r[1] # 1 THEN Raise("NoModularInverse") ELSE Return(r[2])

mod_inverse(a, m) ==
    LET r == extended_gcd(a, m)
    IN  IF r[1] # 1 THEN Raise("NoModularInverse")
        ELSE Return(((r[2] % m) + m) % m)

\* the while loop of power_mod; exponent >> 1 is floor division by 2
RECURSIVE power_mod_loop(_, _, _, _)
power_mod_loop(result, base, exponent, modulus) ==
    IF exponent > 0
    THEN power_mod_loop(IF exponent % 2 = 1 THEN (result * base) % modulus
                                            ELSE result,
                        (base * base) % modulus, exponent \div 2, modulus)
    ELSE result

\* as power_mod, without the early return for modulus 1
power_mod_no_modulus_one(base, exponent, modulus) ==
    power_mod_loop(1, base % modulus, exponent, modulus)

power_mod(base, exponent, modulus) ==
    IF modulus = 1 THEN 0
    ELSE power_mod_loop(1, base % modulus, exponent, modulus)

(***************************************************************************)
(* crypto/sha256.py is not part of the sources at hand: hash_int stands    *)
(* for the digest collaborator, a fixed map from messages to non-negative  *)
(* integers that may exceed the modulus.                                   *)
(***************************************************************************)
Messages == 0..MaxMsg

hash_int(message) == 1013 * message + 5

(***************************************************************************)
(* utils/prime_utils.py                                                    *)
(***************************************************************************)
RECURSIVE Pow2(_)
Pow2(k) == IF k = 0 THEN 1 ELSE 2 * Pow2(k - 1)

\* a | b on non-negative integers
RECURSIVE BitOr(_, _)
BitOr(a, b) ==
    IF a = 0 THEN b
    ELSE IF b = 0 THEN a
    ELSE (IF a % 2 = 1 \/ b % 2 = 1 THEN 1 ELSE 0)
         + 2 * BitOr(a \div 2, b \div 2)

\* n = getrandbits(bits); n |= 1 << (bits - 1); n |= 1
candidate(bits, randbits) == BitOr(BitOr(randbits, Pow2(bits - 1)), 1)

\* n - 1 = 2^r * d: <<r, d>>
RECURSIVE decompose(_, _)
decompose(r, d) == IF d % 2 = 0 THEN decompose(r + 1, d \div 2) ELSE <<r, d>>

\* for _ in range(remaining): x = x^2 mod n; break at n - 1; else: return False
RECURSIVE squaring_loop(_, _, _)
squaring_loop(x, remaining, n) ==
    IF remaining <= 0 THEN FALSE
    ELSE LET x2 == power_mod(x, 2, n)
         IN  IF x2 = n - 1 THEN TRUE ELSE squaring_loop(x2, remaining - 1, n)

\* as miller_rabin_round, passing at once only for x = n - 1
miller_rabin_round_without_one(n, a) ==
    LET rd == decompose(0, n - 1)
        x == power_mod(a, rd[2], n)
    IN  IF x = n - 1 THEN TRUE ELSE squaring_loop(x, rd[1] - 1, n)

\* one round of miller_rabin(n) with witness a: TRUE when the round passes
miller_rabin_round(n, a) ==
    LET rd == decompose(0, n - 1)
        x == power_mod(a, rd[2], n)
    IN  IF x = 1 \/ x = n - 1 THEN TRUE ELSE squaring_loop(x, rd[1] - 1, n)

(***************************************************************************)
(* crypto/rsa.py                                                           *)
(***************************************************************************)
RECURSIVE scan_e(_, _)
scan_e(e, phi_n) == IF gcd(e, phi_n) # 1 THEN scan_e(e + 2, phi_n) ELSE e

choose_e(phi_n) ==
    IF gcd(DefaultE, phi_n) # 1 THEN scan_e(FallbackE, phi_n) ELSE DefaultE

\* as same_prime, were q never drawn again
never_same_prime(p_, q_) == FALSE

\* the loop condition "while p == q"
same_prime(p_, q_) == p_ = q_

\* as encrypt, without the check of plaintext against n
encrypt_no_range_check(plaintext, public_key) ==
    LET key == IF public_key = None THEN rsa_public_key ELSE public_key
    IN  IF key = None THEN Raise("TypeError")
        ELSE Return(power_mod(plaintext, key[1], key[2]))

encrypt(plaintext, public_key) ==
    LET key == IF public_key = None THEN rsa_public_key ELSE public_key
    IN  IF key = None THEN Raise("TypeError")
        ELSE IF plaintext >= key[2] THEN Raise("OutOfRange")
        ELSE Return(power_mod(plaintext, key[1], key[2]))

\* as decrypt, with the key unpacked as n, d
decrypt_key_swapped(ciphertext, private_key) ==
    LET key == IF private_key = None THEN rsa_private_key ELSE private_key
    IN  IF key = None THEN Raise("TypeError")
        ELSE Return(power_mod(ciphertext, key[2], key[1]))

decrypt(ciphertext, private_key) ==
    LET key == IF private_key = None THEN rsa_private_key ELSE private_key
    IN  IF key = None THEN Raise("TypeError")
        ELSE Return(power_mod(ciphertext, key[1], key[2]))

(***************************************************************************)
(* signature/digital_signature.py                                          *)
(***************************************************************************)
\* as sign, without the check that a key is there
sign_without_key_check(message, private_key) ==
    LET key == IF private_key = None THEN ds_private_key ELSE private_key
    IN  IF key = None THEN Raise("TypeError")
        ELSE decrypt(hash_int(message) % key[2], key)

sign(message, private_key) ==
    LET key == IF private_key = None THEN ds_private_key ELSE private_key
    IN  IF key = None THEN Raise("KeyNotSet")
        ELSE decrypt(hash_int(message) % key[2], key)

\* as verify, with the digest not reduced modulo n
verify_no_reduction(message, signature, public_key) ==
    LET key == IF public_key = None THEN ds_public_key ELSE public_key
    IN  IF key = None THEN Raise("KeyNotSet")
        ELSE LET hash_value == hash_int(message)
                 decrypted_hash == encrypt(signature, key)
             IN  IF decrypted_hash.err # "none" THEN decrypted_hash
                 ELSE Return(hash_value = decrypted_hash.val)

\* val is the boolean verify returns (0 beside an error)
verify(message, signature, public_key) ==
    LET key == IF public_key = None THEN ds_public_key ELSE public_key
    IN  IF key = None THEN Raise("KeyNotSet")
        ELSE LET hash_value == hash_int(message) % key[2]
                 decrypted_hash == encrypt(signature, key)
             IN  IF decrypted_hash.err # "none" THEN decrypted_hash
                 ELSE Return(hash_value = decrypted_hash.val)

(***************************************************************************)
(* State machine.                                                          *)
(***************************************************************************)
KeySizes == 0..(2 * MaxBits)

\* keys a caller passes explicitly (main.py), here the pair of p = 61, q = 53,
\* e = 17
ExplicitPublicKey == <<17, 3233>>
ExplicitPrivateKey == <<2753, 3233>>

Call(op, message, arg, key, r) ==
    [op |-> op, message |-> message, arg |-> arg, key |-> key,
     err |-> r.err, val |-> r.val, valid |-> FALSE]

CallVerify(message, arg, key, r) ==
    [op |-> "verify", message |-> message, arg |-> arg, key |-> key,
     err |-> r.err, val |-> 0, valid |-> (r.err = "none" /\ r.val)]

MathCall(fn, a, b, c, r) ==
    [fn |-> fn, a |-> a, b |-> b, c |-> c, err |-> r.err, val |-> r.val]

\* miller_rabin(n): rounds passed, the last witness a drawn (0 before the
\* first) and result "running", "True" or "False" ("none" before any call)
MrCall(n, rounds, a, result) ==
    [n |-> n, rounds |-> rounds, a |-> a, result |-> result]

\* an HTTP response: status and the detail of an HTTPException ("" on 200),
\* the X-Key-ID / key_id and the content (a key text) a 200 carries
Response(endpoint, size, status, detail, key_id, content) ==
    [endpoint |-> endpoint, key_size |-> size, status |-> status,
     detail |-> detail, key_id |-> key_id, content |-> content]

Init ==
    /\ key_size \in KeySizes
    /\ rsa_public_key = None
    /\ rsa_private_key = None
    /\ rsa_n = 0
    /\ ds_public_key = None
    /\ ds_private_key = None
    /\ pc = "idle"
    /\ p = 0
    /\ q = 0
    /\ cand = 0
    /\ mr_round = -1
    /\ call = Call("init", 0, 0, None, Return(0))
    /\ math_call = MathCall("init", 0, 0, 0, Return(0))
    /\ mr_call = MrCall(0, 0, 0, "none")
    /\ key_directory = <<>>
    /\ response = Response("none", 0, 0, "", "", <<>>)

bits == key_size \div 2

\* DigitalSignature.generate_keys -> RSA.generate_keypair, up to the first
\* generate_prime(bits); 1 << (bits - 1) raises for bits = 0
GenerateKeysCall ==
    /\ pc = "idle"
    /\ IF bits = 0
       THEN /\ call' = Call("generate_keys", 0, 0, None, Raise("ValueError"))
            /\ UNCHANGED <<engine, math_call, side>>
       ELSE /\ pc' = "gen_p"
            /\ p' = 0
            /\ q' = 0
            /\ cand' = 0
            /\ mr_round' = -1
            /\ call' = Call("generate_keys", 0, 0, None, Raise("pending"))
            /\ UNCHANGED <<side, math_call, key_size, rsa_public_key, rsa_private_key, rsa_n,
                           ds_public_key, ds_private_key>>

\* generate_prime found no prime in n: back to the top of "while True"
SampleAgain ==
    /\ cand' = 0
    /\ mr_round' = -1
    /\ UNCHANGED <<side, math_call, key_size, rsa_public_key, rsa_private_key, rsa_n,
                   ds_public_key, ds_private_key, pc, p, q, call>>

\* generate_prime returned n to generate_keypair
PrimeReturned(n) ==
    /\ cand' = 0
    /\ mr_round' = -1
    /\ UNCHANGED <<side, math_call, key_size>>
    /\ IF pc = "gen_p"
       THEN /\ p' = n
            /\ pc' = "gen_q"
            /\ UNCHANGED <<q, rsa_public_key, rsa_private_key, rsa_n,
                           ds_public_key, ds_private_key, call>>
       ELSE /\ q' = n
            /\ UNCHANGED p
            /\ IF same_prime(p, n)
               THEN /\ pc' = "regen_q"
                    /\ UNCHANGED <<rsa_public_key, rsa_private_key, rsa_n,
                                   ds_public_key, ds_private_key, call>>
               ELSE LET phi_n == (p - 1) * (n - 1)
                        e == choose_e(phi_n)
                        d == mod_inverse(e, phi_n)
                    IN  /\ pc' = "idle"
                        /\ rsa_n' = p * n
                        /\ IF d.err # "none"
                           THEN /\ call' = Call("generate_keys", 0, 0, None, d)
                                /\ UNCHANGED <<rsa_public_key, rsa_private_key,
                                               ds_public_key, ds_private_key>>
                           ELSE /\ rsa_public_key' = <<e, p * n>>
                                /\ rsa_private_key' = <<d.val, p * n>>
                                /\ ds_public_key' = <<e, p * n>>
                                /\ ds_private_key' = <<d.val, p * n>>
                                /\ call' = Call("generate_keys", 0, 0, None,
                                                Return(0))

\* generate_prime: one sample, and miller_rabin(n) up to its first round
GeneratePrimeSample ==
    /\ pc \in {"gen_p", "gen_q", "regen_q"}
    /\ mr_round = -1
    /\ \E randbits \in 0..(Pow2(bits) - 1) :
          LET n == candidate(bits, randbits)
          IN  IF n < 2 THEN SampleAgain
              ELSE IF n = 2 \/ n = 3 THEN PrimeReturned(n)
              ELSE IF n % 2 = 0 THEN SampleAgain
              ELSE IF K = 0 THEN PrimeReturned(n)
              ELSE /\ cand' = n
                   /\ mr_round' = 0
                   /\ UNCHANGED <<side, math_call, key_size, rsa_public_key, rsa_private_key,
                                  rsa_n, ds_public_key, ds_private_key, pc, p,
                                  q, call>>

\* miller_rabin: one round with a = random.randrange(2, n - 1)
MillerRabinRound ==
    /\ pc \in {"gen_p", "gen_q", "regen_q"}
    /\ mr_round >= 0
    /\ \E a \in 2..(cand - 2) :
          IF miller_rabin_round(cand, a)
          THEN IF mr_round + 1 = K
               THEN PrimeReturned(cand)
               ELSE /\ mr_round' = mr_round + 1
                    /\ UNCHANGED <<side, math_call, key_size, rsa_public_key, rsa_private_key,
                                   rsa_n, ds_public_key, ds_private_key, pc, p,
                                   q, cand, call>>
          ELSE SampleAgain

\* the modulus a call works with, to draw inputs around it
ModulusOf(key, stored) ==
    IF key # None THEN key[2] ELSE IF stored # None THEN stored[2] ELSE 0

\* sign keeping the key it was passed
Sign_storing_key ==
    /\ pc = "idle"
    /\ \E message \in Messages, private_key \in {None, ExplicitPrivateKey} :
          /\ call' = Call("sign", message, 0, private_key,
                          sign(message, private_key))
          /\ ds_private_key' =
                IF private_key # None THEN private_key ELSE ds_private_key
    /\ UNCHANGED <<key_size, rsa_public_key, rsa_private_key, rsa_n,
                   ds_public_key, pc, p, q, cand, mr_round, math_call, side>>

Sign ==
    /\ pc = "idle"
    /\ \E message \in Messages, private_key \in {None, ExplicitPrivateKey} :
          call' = Call("sign", message, 0, private_key,
                       sign(message, private_key))
    /\ UNCHANGED <<engine, math_call, side>>

\* signatures offered to verify: those sign gives for the matching private
\* key, and values around the modulus
SignatureInputs(public_key) ==
    LET n == ModulusOf(public_key, ds_public_key)
        private_key == IF public_key = None THEN None ELSE ExplicitPrivateKey
    IN  {s \in {0, 1, n - 1, n, n + 1} : s >= 0}
        \cup {sign(m, private_key).val : m \in Messages}

Verify ==
    /\ pc = "idle"
    /\ \E message \in Messages, public_key \in {None, ExplicitPublicKey} :
          \E signature \in SignatureInputs(public_key) :
             call' = CallVerify(message, signature, public_key,
                                verify(message, signature, public_key))
    /\ UNCHANGED <<engine, math_call, side>>

PlaintextInputs(public_key) ==
    LET n == ModulusOf(public_key, rsa_public_key)
    IN  {-1, 0, 1, 2, 5, 65, n - 1, n, n + 1}

Encrypt ==
    /\ pc = "idle"
    /\ \E public_key \in {None, ExplicitPublicKey} :
          \E plaintext \in PlaintextInputs(public_key) :
             call' = Call("encrypt", 0, plaintext, public_key,
                          encrypt(plaintext, public_key))
    /\ UNCHANGED <<engine, math_call, side>>

\* ciphertexts offered to decrypt: those encrypt gives for the matching
\* public key, and values around the modulus
CiphertextInputs(private_key) ==
    LET n == ModulusOf(private_key, rsa_private_key)
        public_key == IF private_key = None THEN None ELSE ExplicitPublicKey
    IN  {0, 1, n, n + 1}
        \cup {encrypt(m, public_key).val : m \in PlaintextInputs(public_key)}

Decrypt ==
    /\ pc = "idle"
    /\ \E private_key \in {None, ExplicitPrivateKey} :
          \E ciphertext \in CiphertextInputs(private_key) :
             call' = Call("decrypt", 0, ciphertext, private_key,
                          decrypt(ciphertext, private_key))
    /\ UNCHANGED <<engine, math_call, side>>

Next ==
    \/ GenerateKeysCall
    \/ GeneratePrimeSample
    \/ MillerRabinRound
    \/ Sign
    \/ Verify
    \/ Encrypt
    \/ Decrypt

Spec == Init /\ [][Next]_vars

\* the interpreter keeps running the loops of generate_prime and miller_rabin
SpecFair ==
    /\ Init
    /\ [][Next]_vars
    /\ WF_vars(GeneratePrimeSample)
    /\ WF_vars(MillerRabinRound)

(***************************************************************************)
(* Direct calls of the math_utils functions, on bounded inputs.            *)
(***************************************************************************)
InitMath == Init /\ key_size = 0

\* <<base, exponent, modulus>>
PowerModInputs ==
    ((0..MaxBase) \X ((-MaxNegExp)..MaxExp) \X (1..MaxModulus))
    \cup {<<4, 13, 497>>}

PowerModCall ==
    /\ \E in \in PowerModInputs :
          math_call' = MathCall("power_mod", in[1], in[2], in[3],
                                Return(power_mod(in[1], in[2], in[3])))
    /\ UNCHANGED <<engine, call, side>>

ModInverseCall ==
    /\ \E a \in 0..MaxA, m \in 1..MaxM :
          math_call' = MathCall("mod_inverse", a, m, 0, mod_inverse(a, m))
    /\ UNCHANGED <<engine, call, side>>

NextMath ==
    \/ PowerModCall
    \/ ModInverseCall

SpecMath == InitMath /\ [][NextMath]_vars

(***************************************************************************)
(* The HTTP handlers of main.py that read or write key_directory.          *)
(***************************************************************************)
\* a key text "a:b:..." is the sequence of its parts between the colons;
\* a part is the decimal text of an integer or something int() rejects
Part(digits, val) == [digits |-> digits, val |-> val]

key_to_str(key) == <<Part(TRUE, key[1]), Part(TRUE, key[2])>>

\* IndexError and the ValueError of int() both leave as ValueError
str_to_key(s) ==
    IF Len(s) < 2 THEN Raise("Invalid key format: list index out of range")
    ELSE IF ~s[1].digits \/ ~s[2].digits
         THEN Raise("Invalid key format: invalid literal for int() with base 10")
         ELSE Return(<<s[1].val, s[2].val>>)

HTTPException(status_code, detail) ==
    [status_code |-> status_code, detail |-> detail]

\* str(e) of an HTTPException
StrHTTPException(e) == ToString(e.status_code) \o ": " \o e.detail

ValidKeySizes == {512, 1024, 2048}

\* the form fields a client may send
RequestKeySizes == {0, 256, 512, 1024, 2048, 4096}
Names == {"An", "Binh Le"}
Departments == {"IT"}
\* str(uuid.uuid4())[:8]
KeyIds == {"1a2b3c4d", "5e6f7a8b", "9c0d1e2f"}
\* datetime.now().isoformat()
Timestamps == {"2024-01-01T00:00:00"}

\* what ds.generate_keys() hands the handler for a valid key_size: key pairs
\* (e, n), (d, n) with e * d = 1 mod phi(n), standing for the 512- to
\* 2048-bit pairs
GeneratedKeyPairs ==
    {<<ExplicitPublicKey, ExplicitPrivateKey>>, <<<<7, 3233>>, <<1783, 3233>>>>}

\* the uploaded public key files
UploadedKeyTexts ==
    {key_to_str(ExplicitPublicKey),
     <<Part(TRUE, 17), Part(TRUE, 3233), Part(TRUE, 5)>>,
     <<Part(TRUE, 17)>>,
     <<Part(FALSE, 0), Part(TRUE, 3233)>>}

KeyEntry(id, name, department, public_key, created_at) ==
    [id |-> id, name |-> name, department |-> department,
     public_key |-> public_key, created_at |-> created_at]

\* key_directory[key_id] = entry
SetItem(directory, key_id, entry) ==
    [k \in DOMAIN directory \cup {key_id} |->
        IF k = key_id THEN entry ELSE directory[k]]

\* del key_directory[key_id]
DelItem(directory, key_id) ==
    [k \in DOMAIN directory \ {key_id} |-> directory[k]]

\* POST /generate-keys: the HTTPException of the key_size check is raised
\* inside the try and caught by its "except Exception"
GenerateKeysRequest ==
    /\ \E name \in Names, department \in Departments,
          size \in RequestKeySizes :
          IF size \notin ValidKeySizes
          THEN LET e == HTTPException(400,
                           "Key size must be 512, 1024, or 2048")
                   raised == HTTPException(500,
                           "Key generation failed: " \o StrHTTPException(e))
               IN  /\ response' = Response("generate-keys", size,
                                           raised.status_code, raised.detail,
                                           "", <<>>)
                   /\ UNCHANGED key_directory
          ELSE \E keys \in GeneratedKeyPairs, key_id \in KeyIds,
                  created_at \in Timestamps :
                  /\ key_directory' =
                        SetItem(key_directory, key_id,
                                KeyEntry(key_id, name, department,
                                         key_to_str(keys[1]), created_at))
                  /\ response' = Response("generate-keys", size, 200, "",
                                          key_id, key_to_str(keys[2]))
    /\ UNCHANGED <<engine, call, math_call, mr_call>>

\* POST /register
RegisterRequest ==
    /\ \E name \in Names, department \in Departments,
          pub_key_str \in UploadedKeyTexts :
          LET parsed == str_to_key(pub_key_str)
          IN  IF parsed.err # "none"
              THEN /\ response' = Response("register", 0, 400,
                                           "Invalid public key: " \o parsed.err,
                                           "", <<>>)
                   /\ UNCHANGED key_directory
              ELSE \E key_id \in KeyIds, created_at \in Timestamps :
                      /\ key_directory' =
                            SetItem(key_directory, key_id,
                                    KeyEntry(key_id, name, department,
                                             pub_key_str, created_at))
                      /\ response' = Response("register", 0, 200, "",
                                              key_id, <<>>)
    /\ UNCHANGED <<engine, call, math_call, mr_call>>

\* DELETE /directory/{key_id}
DeleteRequest ==
    /\ \E key_id \in KeyIds :
          IF key_id \notin DOMAIN key_directory
          THEN /\ response' = Response("delete", 0, 404, "Key not found",
                                       key_id, <<>>)
               /\ UNCHANGED key_directory
          ELSE /\ key_directory' = DelItem(key_directory, key_id)
               /\ response' = Response("delete", 0, 200, "", key_id, <<>>)
    /\ UNCHANGED <<engine, call, math_call, mr_call>>

NextApi ==
    \/ GenerateKeysRequest
    \/ RegisterRequest
    \/ DeleteRequest

SpecApi == InitMath /\ [][NextApi]_vars

(***************************************************************************)
(* Direct calls of miller_rabin(n, k=5), one witness per step.             *)
(***************************************************************************)
\* miller_rabin up to its first round
MillerRabinCall ==
    /\ mr_call.result # "running"
    /\ \E n \in 0..MaxN :
          mr_call' =
             IF n < 2 THEN MrCall(n, 0, 0, "False")
             ELSE IF n = 2 \/ n = 3 THEN MrCall(n, 0, 0, "True")
             ELSE IF n % 2 = 0 THEN MrCall(n, 0, 0, "False")
             ELSE IF K = 0 THEN MrCall(n, 0, 0, "True")
             ELSE MrCall(n, 0, 0, "running")
    /\ UNCHANGED <<engine, call, math_call, key_directory, response>>

\* one round with a = random.randrange(2, n - 1)
MillerRabinDraw ==
    /\ mr_call.result = "running"
    /\ \E a \in 2..(mr_call.n - 2) :
          mr_call' =
             IF miller_rabin_round(mr_call.n, a)
             THEN MrCall(mr_call.n, mr_call.rounds + 1, a,
                         IF mr_call.rounds + 1 = K THEN "True" ELSE "running")
             ELSE MrCall(mr_call.n, mr_call.rounds, a, "False")
    /\ UNCHANGED <<engine, call, math_call, key_directory, response>>

NextPrime ==
    \/ MillerRabinCall
    \/ MillerRabinDraw

SpecPrime == InitMath /\ [][NextPrime]_vars

(***************************************************************************)
(* Reference notions the properties are stated with.                       *)
(***************************************************************************)
IsPrime(n) == n >= 2 /\ \A f \in 2..(n - 1) : n % f # 0

Coprime(a, b) == \A f \in 2..(IF a < b THEN b ELSE a) : a % f # 0 \/ b % f # 0

RECURSIVE Pow(_, _)
Pow(b, e) == IF e = 0 THEN 1 ELSE b * Pow(b, e - 1)

(***************************************************************************)
(* Properties of math_utils (under SpecMath).                              *)
(***************************************************************************)

\* C8, as stated: for a >= 0 and m >= 1 with gcd(a, m) = 1, m = 1 included,
\* mod_inverse(a, m) returns x with 0 <= x < m and (a * x) mod m = 1.
C8_ModInverseFromOne ==
    (math_call.fn = "mod_inverse" /\ Coprime(math_call.a, math_call.b))
    => /\ math_call.err = "none"
       /\ 0 <= math_call.val /\ math_call.val < math_call.b
       /\ (math_call.a * math_call.val) % math_call.b = 1

\* C8, amended: for a >= 0 and m >= 2 with gcd(a, m) = 1, mod_inverse(a, m)
\* returns x with 0 <= x < m and (a * x) mod m = 1; for m = 1 it returns 0,
\* and when gcd(a, m) # 1 it fails with NoModularInverse.
C8_ModInverse ==
    math_call.fn = "mod_inverse"
    => IF ~Coprime(math_call.a, math_call.b)
       THEN math_call.err = "NoModularInverse"
       ELSE /\ math_call.err = "none"
            /\ 0 <= math_call.val /\ math_call.val < math_call.b
            /\ IF math_call.b = 1 THEN math_call.val = 0
               ELSE (math_call.a * math_call.val) % math_call.b = 1

\* mod_inverse(2, 3) = 2, where extended_gcd gives the negative x = -1
C8_Witness ==
    /\ math_call.fn = "mod_inverse"
    /\ math_call.a = 2 /\ math_call.b = 3
    /\ extended_gcd(2, 3)[2] < 0
    /\ math_call.err = "none" /\ math_call.val = 2

\* C9: for base >= 0, exponent >= 0 and modulus >= 1, power_mod(base,
\* exponent, modulus) is base^exponent mod modulus: 1 for exponent 0 and
\* modulus > 1, 0 for modulus 1.
C9_PowerMod ==
    (math_call.fn = "power_mod" /\ math_call.b >= 0)
    => /\ math_call.err = "none"
       /\ math_call.val = Pow(math_call.a, math_call.b) % math_call.c
       /\ (math_call.b = 0 /\ math_call.c > 1) => math_call.val = 1
       /\ math_call.c = 1 => math_call.val = 0

\* power_mod(4, 13, 497) = 445
C9_Witness ==
    /\ math_call.fn = "power_mod"
    /\ math_call.a = 4 /\ math_call.b = 13 /\ math_call.c = 497
    /\ math_call.val = 445

\* C10: power_mod with a negative exponent and modulus > 1 is rejected with
\* an error and returns no number.
C10_NegativeExponentRejected ==
    (math_call.fn = "power_mod" /\ math_call.b < 0 /\ math_call.c > 1)
    => math_call.err # "none"

(***************************************************************************)
(* Properties of the keys and of the object's operations (under Spec).     *)
(***************************************************************************)
Unkeyed == ds_public_key = None /\ ds_private_key = None
Keyed == ds_public_key # None /\ ds_private_key # None

\* generate_keypair has returned and p, q are the values it used
KeysGenerated == pc = "idle" /\ Keyed
KeysJustGenerated ==
    pc = "idle" /\ call.op = "generate_keys" /\ call.err = "none"

SignThenVerify ==
    \A M \in Messages :
       LET s == sign(M, ds_private_key)
       IN  /\ s.err = "none"
           /\ verify(M, s.val, ds_public_key) = Return(TRUE)

\* C1, as stated: for every key pair generate_keypair produces and every
\* message M, verify(M, sign(M, private), public) is True.
C1_SignThenVerifyAnyKeys == KeysGenerated => SignThenVerify

\* C1, amended: for every key pair generate_keypair produces from p and q
\* that are both prime (miller_rabin accepted no composite) and every
\* message M, verify(M, sign(M, private), public) is True.
C1_SignThenVerify ==
    (KeysGenerated /\ IsPrime(p) /\ IsPrime(q)) => SignThenVerify

\* verify has accepted the signature sign gives for the same message, whose
\* digest exceeds the modulus
C1_Witness ==
    /\ KeysGenerated /\ IsPrime(p) /\ IsPrime(q)
    /\ call.op = "verify" /\ call.key = None
    /\ hash_int(call.message) >= rsa_n
    /\ call.arg = sign(call.message, None).val
    /\ call.err = "none" /\ call.valid

RoundTrip ==
    \A m \in 0..(rsa_n - 1) :
       LET c == encrypt(m, rsa_public_key)
       IN  /\ c.err = "none"
           /\ decrypt(c.val, rsa_private_key) = Return(m)

\* C2, as stated: for every key pair generate_keypair produces and every
\* plaintext 0 <= m < n, decrypt(encrypt(m, public), private) = m.
C2_RoundTripAnyKeys == KeysJustGenerated => RoundTrip

\* C2, amended: for every key pair generate_keypair produces from p and q
\* that are both prime and every plaintext 0 <= m < n,
\* decrypt(encrypt(m, public), private) = m.
C2_RoundTrip == (KeysJustGenerated /\ IsPrime(p) /\ IsPrime(q)) => RoundTrip

\* decrypt has given back the plaintext 5 from its ciphertext
C2_Witness ==
    /\ KeysGenerated /\ IsPrime(p) /\ IsPrime(q)
    /\ call.op = "decrypt" /\ call.key = None
    /\ call.arg = encrypt(5, None).val /\ call.arg # 5
    /\ call.err = "none" /\ call.val = 5

\* the key a verify call worked with
VerifyKey == IF call.key = None THEN ds_public_key ELSE call.key

\* C3, as stated: for every message, public key (e, n) and signature >= 0,
\* signature >= n included, verify returns a boolean that is True exactly
\* when digest mod n = power_mod(signature, e, n); and verify(M', sign(M))
\* is False for digests that differ modulo n.
C3_VerifyAnySignature ==
    /\ (call.op = "verify" /\ VerifyKey # None)
       => /\ call.err = "none"
          /\ call.valid <=> (hash_int(call.message) % VerifyKey[2]
                             = power_mod(call.arg, VerifyKey[1], VerifyKey[2]))
    /\ KeysGenerated
       => \A M1 \in Messages, M2 \in Messages :
             hash_int(M1) % rsa_n # hash_int(M2) % rsa_n
             => verify(M2, sign(M1, ds_private_key).val, ds_public_key)
                = Return(FALSE)

\* C3, amended: for every message, public key (e, n) and signature with
\* 0 <= signature < n, verify returns a boolean that is True exactly when
\* digest mod n = power_mod(signature, e, n); for signature >= n it fails
\* with OutOfRange; and for keys made from two primes verify(M', sign(M)) is
\* False for digests that differ modulo n.
C3_Verify ==
    /\ (call.op = "verify" /\ VerifyKey # None)
       => IF call.arg < VerifyKey[2]
          THEN /\ call.err = "none"
               /\ call.valid <=> (hash_int(call.message) % VerifyKey[2]
                                  = power_mod(call.arg, VerifyKey[1],
                                              VerifyKey[2]))
          ELSE call.err = "OutOfRange" /\ ~call.valid
    /\ (KeysGenerated /\ IsPrime(p) /\ IsPrime(q))
       => \A M1 \in Messages, M2 \in Messages :
             hash_int(M1) % rsa_n # hash_int(M2) % rsa_n
             => verify(M2, sign(M1, ds_private_key).val, ds_public_key)
                = Return(FALSE)

\* verify has rejected, for one message, the signature of another
C3_Witness ==
    /\ KeysGenerated /\ IsPrime(p) /\ IsPrime(q)
    /\ call.op = "verify" /\ call.key = None
    /\ \E M \in Messages :
          /\ hash_int(M) % rsa_n # hash_int(call.message) % rsa_n
          /\ call.arg = sign(M, None).val
    /\ call.err = "none" /\ ~call.valid

\* C4: after a completed generate_keypair, p # q, n = p * q is the modulus of
\* both keys, gcd(e, (p-1)(q-1)) = 1 and d * e mod (p-1)(q-1) = 1.
C4_KeyInvariants ==
    KeysJustGenerated
    => LET phi_n == (p - 1) * (q - 1)
       IN  /\ p # q
           /\ rsa_n = p * q
           /\ rsa_public_key[2] = p * q /\ rsa_private_key[2] = p * q
           /\ ds_public_key = rsa_public_key
           /\ ds_private_key = rsa_private_key
           /\ Coprime(rsa_public_key[1], phi_n)
           /\ (rsa_private_key[1] * rsa_public_key[1]) % phi_n = 1

\* generate_keypair has returned a key pair
C4_Witness == KeysJustGenerated /\ rsa_n = p * q /\ rsa_n > 0

\* C5: every key pair generate_keypair returns has 1 < e < phi(n) and
\* 0 <= d < phi(n), for small key sizes too.
C5_ExponentsInRange ==
    KeysJustGenerated
    => LET phi_n == (p - 1) * (q - 1)
       IN  /\ 1 < rsa_public_key[1] /\ rsa_public_key[1] < phi_n
           /\ 0 <= rsa_private_key[1] /\ rsa_private_key[1] < phi_n

\* C6: sign or verify without an explicit key fails with KeyNotSet exactly
\* when the object is Unkeyed, that is until generate_keys completes; a
\* completed generate_keys leaves it Keyed, nothing moves it back, and a
\* KeyNotSet failure changes nothing of the object.
C6_Step ==
    /\ (call'.op \in {"sign", "verify"} /\ call'.key = None)
       => (call'.err = "KeyNotSet" <=> Unkeyed)
    /\ call'.err = "KeyNotSet" => UNCHANGED engine
    /\ (pc # "idle" /\ call'.op = "generate_keys" /\ call'.err = "none")
       => Keyed'
    /\ Keyed => Keyed'
    /\ (Unkeyed /\ ~Unkeyed')
       => (pc # "idle" /\ call'.op = "generate_keys" /\ call'.err = "none")
    /\ Unkeyed' \/ Keyed'

C6_KeyNotSet == [][C6_Step]_vars

\* sign without a key has failed with KeyNotSet on an object without keys
C6_Witness ==
    /\ Unkeyed
    /\ call.op = "sign" /\ call.key = None /\ call.err = "KeyNotSet"

\* the key an encrypt call worked with
EncryptKey == IF call.key = None THEN rsa_public_key ELSE call.key

\* C7: encrypt fails with OutOfRange for every plaintext outside
\* 0 <= plaintext < n, negative ones included, and returns
\* power_mod(plaintext, e, n) inside it.
C7_EncryptRange ==
    (call.op = "encrypt" /\ EncryptKey # None)
    => IF 0 <= call.arg /\ call.arg < EncryptKey[2]
       THEN /\ call.err = "none"
            /\ call.val = power_mod(call.arg, EncryptKey[1], EncryptKey[2])
       ELSE call.err = "OutOfRange"

(***************************************************************************)
(* Properties of miller_rabin (under SpecPrime).                           *)
(***************************************************************************)
\* b^e mod n by repeated multiplication
RECURSIVE ModPow(_, _, _)
ModPow(b, e, n) == IF e = 0 THEN 1 % n ELSE (b * ModPow(b, e - 1, n)) % n

\* a is a strong liar for odd n: with n - 1 = 2^r * d and d odd, a^d = 1 or
\* a^(2^j * d) = n - 1 (mod n) for some 0 <= j < r
StrongLiar(n, a) ==
    \E r \in 1..(n - 1), d \in 1..(n - 1) :
       /\ d % 2 = 1
       /\ r < 31
       /\ Pow(2, r) <= n - 1
       /\ Pow(2, r) * d = n - 1
       /\ \/ ModPow(a, d, n) = 1
          \/ \E j \in 0..(r - 1) : ModPow(a, Pow(2, j) * d, n) = n - 1

\* C11: whatever witnesses are drawn, miller_rabin(n) returns False for
\* n < 2 and for even n > 2, never returns False for a prime n (and returns
\* True after K passed rounds), and for an odd composite n returns False at
\* the first drawn witness that is no strong liar, so that it returns True
\* only if every drawn witness is a strong liar.
C11_MillerRabin ==
    mr_call.result # "none"
    => LET n == mr_call.n
       IN  /\ (n < 2 \/ (n > 2 /\ n % 2 = 0)) => mr_call.result = "False"
           /\ IsPrime(n) => mr_call.result # "False"
           /\ (n > 3 /\ mr_call.result = "True") => mr_call.rounds = K
           /\ (n > 3 /\ n % 2 = 1 /\ mr_call.a # 0)
              => /\ mr_call.a \in 2..(n - 2)
                 /\ mr_call.result = "False" <=> ~StrongLiar(n, mr_call.a)

\* miller_rabin(25) has returned True after K rounds of strong liars
C11_Witness ==
    /\ mr_call.n = 25 /\ mr_call.result = "True"
    /\ mr_call.rounds = K /\ mr_call.a \in {7, 18}

(***************************************************************************)
(* Termination of generate_prime (under SpecFair).                         *)
(***************************************************************************)
\* C12: every call generate_prime(bit_length) eventually ends, for every
\* bit_length >= 1 and every sequence of draws: it returns a candidate that
\* passed miller_rabin or fails with PrimalityExhaustion; here for the calls
\* that draw p and q in generate_keypair.
C12_GeneratePrimeEnds ==
    /\ (pc = "gen_p") ~> (pc # "gen_p" \/ call.err = "PrimalityExhaustion")
    /\ (pc = "gen_q") ~> (pc # "gen_q" \/ call.err = "PrimalityExhaustion")

(***************************************************************************)
(* Frame of encrypt, decrypt, sign and verify (under Spec).                *)
(***************************************************************************)
\* the key material RSA.__init__ and DigitalSignature.__init__ create
StoredKeys ==
    <<rsa_public_key, rsa_private_key, rsa_n, ds_public_key, ds_private_key>>

Methods == {"encrypt", "decrypt", "sign", "verify"}

\* C13: encrypt, decrypt, sign and verify leave the stored public_key,
\* private_key and n of RSA and public_key, private_key of DigitalSignature
\* as they were, whether the call returns or raises and whether the key is
\* passed or the stored one; only generate_keys / generate_keypair changes
\* them, and a key passed to a call is not stored by it.
C13_Step ==
    /\ call'.op \in Methods => StoredKeys' = StoredKeys
    /\ StoredKeys' # StoredKeys => call'.op = "generate_keys"
    /\ (call'.op \in Methods /\ call'.key # None)
       => /\ rsa_public_key' = call'.key => rsa_public_key = call'.key
          /\ rsa_private_key' = call'.key => rsa_private_key = call'.key
          /\ ds_public_key' = call'.key => ds_public_key = call'.key
          /\ ds_private_key' = call'.key => ds_private_key = call'.key

C13_MethodsRetainNoState == [][C13_Step]_vars

\* sign with an explicit key returned while other keys are stored
C13_Witness ==
    /\ Keyed
    /\ call.op = "sign"
    /\ call.err = "none"
    /\ call.key = ExplicitPrivateKey
    /\ ds_private_key # ExplicitPrivateKey
    /\ rsa_private_key # ExplicitPrivateKey

(***************************************************************************)
(* The key_size check of /generate-keys (under SpecApi).                   *)
(***************************************************************************)
\* C14: a /generate-keys request whose key_size is not 512, 1024 or 2048 is
\* answered with status 400 and detail "Key size must be 512, 1024, or 2048",
\* hands out no key and leaves key_directory unchanged.
C14_Step ==
    (response'.endpoint = "generate-keys"
        /\ response'.key_size \notin ValidKeySizes)
    => /\ response'.status = 400
       /\ response'.detail = "Key size must be 512, 1024, or 2048"
       /\ response'.content = <<>>
       /\ key_directory' = key_directory

C14_InvalidKeySizeIs400 == [][C14_Step]_vars

====
